---------------------------- MODULE Spec2Model ----------------------------
(***************************************************************************)
(* csres: per-monitor display resolution switching driven by a process     *)
(* poll loop.  The model covers the display layer (display.go), the        *)
(* process check (ProcessMonitor), the ResolutionMonitor state machine     *)
(* (activeApps / currentAppRes / originalRes) and the GUI goroutines that  *)
(* drive it (gui.go: runResolutionMonitor, start/stopMonitoring, quit,     *)
(* saveSettings).                                                          *)
(***************************************************************************)
EXTENDS Integers, Sequences, FiniteSets, TLC

VARIABLES
    live,           \* hardware: monitor name -> resolution currently displayed
    file,           \* content of the configuration file (a Config)
    resMonitor,     \* g.resMonitor /= nil
    isRunning,      \* g.isRunning
    exited,         \* the process has ended (quit ran app.Quit)
    config,         \* g.resMonitor.config
    originalRes,    \* g.resMonitor.originalRes   (MonitorOriginalState)
    currentAppRes,  \* g.resMonitor.currentAppRes (ActiveOverrides)
    activeApps,     \* g.resMonitor.activeApps    (ActiveApps)
    pc,             \* position of the runResolutionMonitor goroutine ("notStarted"
                    \* until Run starts it)
    runningApps,    \* checkRunningApps: result of the last MonitorProcesses
    tried,          \* checkRunningApps: start edges already handled this tick
    period,         \* period of the poll ticker, in seconds
    last,           \* what the last step did (operation, edge, SetMode calls)
    hist,           \* run history used to state the end-to-end properties
    edits,          \* number of configuration changes made so far
    dm,             \* the last ChangeResolutionForMonitor call, with its result
    configChan,     \* cw.configChan: buffered channel of capacity 1
    errorChan,      \* cw.errorChan: buffered channel of capacity 1
    events,         \* write events of the config file waiting in cw.watcher.Events
    wpc,            \* position of the ConfigWatcher goroutine
    shown,          \* the configuration the GUI widgets show (loadConfig)
    wlog,           \* history of the reload path (parsed, delivered configurations)
    mp,             \* the last MonitorProcesses call, with its result
    boot,           \* position of GUIApp.Run at startup, and what it found
    ec              \* the last stop edge handled alone, with its result

\* the variables of the reload path and of the process check
otherVars == <<configChan, errorChan, events, wpc, shown, wlog, mp, boot, ec>>

vars == <<live, file, resMonitor, isRunning, exited, config, originalRes,
          currentAppRes, activeApps, pc, runningApps, tried, period,
          last, hist, edits, dm,
         configChan, errorChan, events, wpc, shown, wlog, mp, boot, ec>>

----------------------------------------------------------------------------
(* Bounds of the model *)

\* configuration changes (file edits, saves of the settings) in one run
MaxEdits == 1
\* rules in a configuration handed to the process check alone
MaxRules == 3
\* writes of the configuration file by another program in one run
MaxWrites == 3
\* largest absolute value of a stored poll_interval
MaxStoredPoll == 3

----------------------------------------------------------------------------
(* display.go: constants.  The DISP_CHANGE_* values 0xFFFFFFFF..0xFFFFFFFA are
   written as the 32-bit LONG the API returns: -1 .. -6 *)

DISP_CHANGE_SUCCESSFUL == 0
DISP_CHANGE_RESTART == 1
DISP_CHANGE_FAILED == -1
DISP_CHANGE_BADMODE == -2
DISP_CHANGE_NOTUPDATED == -3
DISP_CHANGE_BADFLAGS == -4
DISP_CHANGE_BADPARAM == -5
DISP_CHANGE_BADDUALVIEW == -6
\* a return value the switch does not list (its default branch)
DISP_CHANGE_OTHER == 2

maxRetries == 3

RetCodes == {DISP_CHANGE_SUCCESSFUL, DISP_CHANGE_RESTART, DISP_CHANGE_FAILED,
             DISP_CHANGE_BADMODE, DISP_CHANGE_NOTUPDATED, DISP_CHANGE_BADFLAGS,
             DISP_CHANGE_BADPARAM, DISP_CHANGE_BADDUALVIEW, DISP_CHANGE_OTHER}

----------------------------------------------------------------------------
(* Data: resolutions, monitors, rules, configurations *)

Res(w, h, f) == [Width |-> w, Height |-> h, Frequency |-> f]

Native   == Res(2560, 1440, 144)
Low144   == Res(1280, 960, 144)
Low60    == Res(1280, 960, 60)
LowAny   == Res(1280, 960, 0)
Mid60    == Res(1920, 1080, 60)
Tiny75   == Res(800, 600, 75)

\* the empty name is the primary monitor
Primary  == ""
Display2 == "DISPLAY2"
Monitors == {Primary, Display2}

\* the modes the driver enumerates for a monitor (EnumDisplaySettingsW, index 0..)
SupportedModes(monitorName) == {Native, Low144, Low60, Mid60}

\* process names as the process table reports them
OsProcs == {"CS2.EXE", "game.exe"}

ToLower(s) ==
    CASE s = "CS2.EXE" -> "cs2.exe"
      [] s = "Game.exe" -> "game.exe"
      [] OTHER -> s

\* *Resolution: <<>> is nil, <<r>> points to r
NilRes == <<>>
Ptr(r) == <<r>>

App(p, r, m, rr) ==
    [ProcessName |-> p, Resolution |-> r, MonitorName |-> m, RestoreResolution |-> rr]

RuleCs     == App("cs2.exe", Low144, Display2, NilRes)
RuleGame   == App("Game.exe", Mid60, Display2, NilRes)
RuleGameR  == App("Game.exe", LowAny, Primary, Ptr(Mid60))

Cfg(apps, pi) == [Applications |-> apps, PollInterval |-> pi]

AppLists == {<<RuleCs, RuleGame>>, <<RuleCs, RuleGameR>>}

(* partial maps (Go maps) as functions over a subset of the keys *)
EmptyMap == [k \in {} |-> k]
Put(f, k, v) == [x \in (DOMAIN f) \cup {k} |-> IF x = k THEN v ELSE f[x]]
Del(f, k) == [x \in (DOMAIN f) \ {k} |-> f[x]]

----------------------------------------------------------------------------
(* display.go: DisplayManager *)

\* variant used to test the claims: a frequency of 0 equals any frequency
IsResolutionEqualAnyFrequency(r1, r2) ==
    /\ r1.Width = r2.Width /\ r1.Height = r2.Height
    /\ (r1.Frequency = 0 \/ r2.Frequency = 0 \/ r1.Frequency = r2.Frequency)

IsResolutionEqual(r1, r2) ==
    r1.Width = r2.Width /\ r1.Height = r2.Height /\ r1.Frequency = r2.Frequency

IsModeSupported(targetResolution, monitorName) ==
    \E devMode \in SupportedModes(monitorName) :
        /\ devMode.Width = targetResolution.Width
        /\ devMode.Height = targetResolution.Height
        /\ (targetResolution.Frequency = 0
            \/ devMode.Frequency = targetResolution.Frequency)

\* the DEVMODE handed to ChangeDisplaySettings(Ex)W: the current mode with the
\* width and height replaced, and the frequency too when one is given
NewMode(devMode, resolution) ==
    [Width |-> resolution.Width, Height |-> resolution.Height,
     Frequency |-> IF resolution.Frequency > 0 THEN resolution.Frequency
                   ELSE devMode.Frequency]

\* the driver's answer to one mode change: the value it is about to return,
\* except that it never reports success for a mode the monitor does not have
DriverRet(ret, newMode, monitorName) ==
    IF ret = DISP_CHANGE_SUCCESSFUL /\ newMode \notin SupportedModes(monitorName)
    THEN DISP_CHANGE_BADMODE ELSE ret

\* variants of the switch, used to test the claims about it
SwitchRetriesBadParam(ret) ==
    IF ret = DISP_CHANGE_SUCCESSFUL THEN "return nil"
    ELSE IF ret \in {DISP_CHANGE_BADMODE, DISP_CHANGE_BADFLAGS, DISP_CHANGE_BADDUALVIEW}
         THEN "return error"
    ELSE "continue"

SwitchTakesFailedForDone(ret) ==
    IF ret \in {DISP_CHANGE_SUCCESSFUL, DISP_CHANGE_FAILED} THEN "return nil"
    ELSE IF ret \in {DISP_CHANGE_BADMODE, DISP_CHANGE_BADFLAGS,
                     DISP_CHANGE_BADPARAM, DISP_CHANGE_BADDUALVIEW}
         THEN "return error"
    ELSE "continue"

\* what the switch on the return value does with one attempt
RetryCodes == {DISP_CHANGE_RESTART, DISP_CHANGE_FAILED, DISP_CHANGE_NOTUPDATED,
               DISP_CHANGE_OTHER}
SwitchOnRet(ret) ==
    IF ret = DISP_CHANGE_SUCCESSFUL THEN "return nil"
    ELSE IF ret \in {DISP_CHANGE_BADMODE, DISP_CHANGE_BADFLAGS,
                     DISP_CHANGE_BADPARAM, DISP_CHANGE_BADDUALVIEW}
         THEN "return error"
    ELSE "continue"

\* the driver's answer to the i-th attempt of a call; past the end of the
\* script it keeps answering as it last did
RetAt(rets, i) == IF i <= Len(rets) THEN rets[i] ELSE rets[Len(rets)]

\* variants of the retry loop, used to test the claims about it:
\* one attempt more, and nil once the attempts are used up
RECURSIVE RetryLoopOneMore(_, _, _, _)
RetryLoopOneMore(retry, newMode, monitorName, rets) ==
    IF retry <= maxRetries
    THEN LET ret == DriverRet(RetAt(rets, retry + 1), newMode, monitorName)
         IN  IF ret = DISP_CHANGE_SUCCESSFUL
             THEN [ok |-> TRUE, attempts |-> retry + 1, lastRet |-> ret, applied |-> TRUE]
             ELSE IF ret \notin RetryCodes
             THEN [ok |-> FALSE, attempts |-> retry + 1, lastRet |-> ret, applied |-> FALSE]
             ELSE RetryLoopOneMore(retry + 1, newMode, monitorName, rets)
    ELSE [ok |-> FALSE, attempts |-> retry, lastRet |-> RetAt(rets, retry),
          applied |-> FALSE]

RECURSIVE RetryLoopNilAtEnd(_, _, _, _)
RetryLoopNilAtEnd(retry, newMode, monitorName, rets) ==
    IF retry < maxRetries
    THEN LET ret == DriverRet(RetAt(rets, retry + 1), newMode, monitorName)
         IN  IF ret = DISP_CHANGE_SUCCESSFUL
             THEN [ok |-> TRUE, attempts |-> retry + 1, lastRet |-> ret, applied |-> TRUE]
             ELSE IF ret \notin RetryCodes
             THEN [ok |-> FALSE, attempts |-> retry + 1, lastRet |-> ret, applied |-> FALSE]
             ELSE RetryLoopNilAtEnd(retry + 1, newMode, monitorName, rets)
    ELSE [ok |-> TRUE, attempts |-> retry, lastRet |-> RetAt(rets, retry),
          applied |-> FALSE]

\* the retry loop; ok is what the call returns (nil or an error), applied is
\* whether the driver switched the mode
RECURSIVE RetryLoop(_, _, _, _)
RetryLoop(retry, newMode, monitorName, rets) ==
    IF retry < maxRetries
    THEN LET ret == DriverRet(RetAt(rets, retry + 1), newMode, monitorName)
             act == SwitchOnRet(ret)
         IN  IF act = "return nil"
             THEN [ok |-> TRUE, attempts |-> retry + 1, lastRet |-> ret,
                   applied |-> ret = DISP_CHANGE_SUCCESSFUL]
             ELSE IF act = "return error"
             THEN [ok |-> FALSE, attempts |-> retry + 1, lastRet |-> ret,
                   applied |-> ret = DISP_CHANGE_SUCCESSFUL]
             ELSE RetryLoop(retry + 1, newMode, monitorName, rets)
    ELSE [ok |-> FALSE, attempts |-> retry, lastRet |-> RetAt(rets, retry),
          applied |-> FALSE]

\* variant used to test the claims: the error of the retry loop is dropped
ChangeResolutionReportsNil(resolution, monitorName, cur, drv) ==
    IF ~IsModeSupported(resolution, monitorName)
    THEN [ok |-> FALSE, attempts |-> 0, lastRet |-> DISP_CHANGE_BADMODE, mode |-> cur]
    ELSE IF ~drv.stateOk
    THEN [ok |-> FALSE, attempts |-> 0, lastRet |-> DISP_CHANGE_FAILED, mode |-> cur]
    ELSE LET newMode == NewMode(cur, resolution)
             r == RetryLoop(0, newMode, monitorName, drv.rets)
         IN  [ok |-> TRUE, attempts |-> r.attempts, lastRet |-> r.lastRet,
              mode |-> IF r.applied THEN newMode ELSE cur]

\* drv = [stateOk: the monitor-state and current-settings queries succeed,
\*        rets: the driver's answers to successive attempts]
\* mode is the monitor's resolution after the call
\* variant used to test the claims: the supported modes are not looked at
ChangeResolutionUnchecked(resolution, monitorName, cur, drv) ==
    IF ~drv.stateOk
    THEN [ok |-> FALSE, attempts |-> 0, lastRet |-> DISP_CHANGE_FAILED, mode |-> cur]
    ELSE LET newMode == NewMode(cur, resolution)
             r == RetryLoop(0, newMode, monitorName, drv.rets)
         IN  [ok |-> r.ok, attempts |-> r.attempts, lastRet |-> r.lastRet,
              mode |-> IF r.applied THEN newMode ELSE cur]

ChangeResolutionForMonitor(resolution, monitorName, cur, drv) ==
    IF ~IsModeSupported(resolution, monitorName)
    THEN [ok |-> FALSE, attempts |-> 0, lastRet |-> DISP_CHANGE_BADMODE, mode |-> cur]
    ELSE IF ~drv.stateOk
    THEN [ok |-> FALSE, attempts |-> 0, lastRet |-> DISP_CHANGE_FAILED, mode |-> cur]
    ELSE LET newMode == NewMode(cur, resolution)
             r == RetryLoop(0, newMode, monitorName, drv.rets)
         IN  [ok |-> r.ok, attempts |-> r.attempts, lastRet |-> r.lastRet,
              mode |-> IF r.applied THEN newMode ELSE cur]

----------------------------------------------------------------------------
(* config.go, ProcessMonitor *)

\* a file that cannot be read or parsed: LoadConfig returns an error
BadFile == [Invalid |-> TRUE]
LoadFails(content) == "Invalid" \in DOMAIN content

\* no file at the configuration path
Absent == [Absent |-> TRUE]
IsNotExist(content) == "Absent" \in DOMAIN content

\* json.Unmarshal into a Config: a key that the document lacks leaves the zero
\* value of its field
Unmarshal(doc) ==
    [Applications |-> IF "applications" \in DOMAIN doc THEN doc.applications ELSE <<>>,
     PollInterval |-> IF "poll_interval" \in DOMAIN doc THEN doc.poll_interval ELSE 0,
     AutoStartMonitoring |-> IF "auto_start_monitoring" \in DOMAIN doc
                             THEN doc.auto_start_monitoring ELSE FALSE]

\* variant used to test the claims: only a negative interval is replaced
LoadConfigKeepsZero(content) ==
    IF content.PollInterval < 0 THEN [content EXCEPT !.PollInterval = 2]
    ELSE content

\* LoadConfig: the parsed file, with the default poll interval filled in
LoadConfig(content) ==
    IF content.PollInterval <= 0 THEN [content EXCEPT !.PollInterval = 2]
    ELSE content

\* IsProcessRunning: case-insensitive match against the process snapshot
IsProcessRunning(processName, processes) ==
    \E proc \in processes : ToLower(proc) = ToLower(processName)

\* variant used to test the claims: the map is keyed by the lower-cased name
RECURSIVE MonitorLoopLowerKey(_, _, _, _)
MonitorLoopLowerKey(apps, i, processes, runningNow) ==
    IF i > Len(apps) THEN runningNow
    ELSE MonitorLoopLowerKey(apps, i + 1, processes,
            IF IsProcessRunning(apps[i].ProcessName, processes)
            THEN Put(runningNow, ToLower(apps[i].ProcessName), apps[i])
            ELSE runningNow)

\* MonitorProcesses: the configured applications that run, keyed by the
\* process name as configured; a later rule of the same name replaces an earlier one
RECURSIVE MonitorLoop(_, _, _, _)
MonitorLoop(apps, i, processes, runningNow) ==
    IF i > Len(apps) THEN runningNow
    ELSE MonitorLoop(apps, i + 1, processes,
            IF IsProcessRunning(apps[i].ProcessName, processes)
            THEN Put(runningNow, apps[i].ProcessName, apps[i])
            ELSE runningNow)

MonitorProcesses(cfg, processes) ==
    MonitorLoop(cfg.Applications, 1, processes, EmptyMap)

----------------------------------------------------------------------------
(* ResolutionMonitor: the state machine of spec section 4.1 *)

\* the answers of the environment to one edge: env = [queryOk, drv]
\*   queryOk: reading the monitor's current resolution succeeds
\*   drv:     the driver's behaviour during the SetMode call, if one is made
Call(mon, res, r) == [mon |-> mon, res |-> res, ok |-> r.ok]

Outcome(aa, car, lv, calls, ok) ==
    [activeApps |-> aa, currentAppRes |-> car, live |-> lv, calls |-> calls, ok |-> ok]

\* variant used to test the claims: the other recorded rules are not looked at
NoOtherActive(app, aa) == FALSE

\* does a rule other than app's own, recorded in aa, target app's monitor
OtherActiveOnMonitor(app, aa) ==
    \E q \in (DOMAIN aa) \ {app.ProcessName} : aa[q].MonitorName = app.MonitorName

\* variant used to test the claims: a start edge at the target seeds the
\* override entry even when the monitor already has one
handleAppStartedReseeds(app, aa, car, orig, lv, env) ==
    LET mon == app.MonitorName
    IN  IF ~env.queryOk THEN Outcome(aa, car, lv, {}, FALSE)
        ELSE IF IsResolutionEqual(lv[mon], app.Resolution)
        THEN Outcome(Put(aa, app.ProcessName, app),
                     IF mon \notin DOMAIN orig THEN car ELSE Put(car, mon, orig[mon]),
                     lv, {}, TRUE)
        ELSE LET r == ChangeResolutionForMonitor(app.Resolution, mon, lv[mon], env.drv)
             IN  IF r.ok
                 THEN Outcome(Put(aa, app.ProcessName, app),
                              Put(car, mon, app.Resolution),
                              [lv EXCEPT ![mon] = r.mode],
                              {Call(mon, app.Resolution, r)}, TRUE)
                 ELSE Outcome(aa, car, [lv EXCEPT ![mon] = r.mode],
                              {Call(mon, app.Resolution, r)}, FALSE)

\* start edge
handleAppStarted(app, aa, car, orig, lv, env) ==
    LET mon == app.MonitorName
    IN  IF ~env.queryOk THEN Outcome(aa, car, lv, {}, FALSE)
        ELSE IF IsResolutionEqual(lv[mon], app.Resolution)
        THEN Outcome(Put(aa, app.ProcessName, app),
                     IF mon \in DOMAIN car \/ mon \notin DOMAIN orig THEN car
                     ELSE Put(car, mon, orig[mon]),
                     lv, {}, TRUE)
        ELSE LET r == ChangeResolutionForMonitor(app.Resolution, mon, lv[mon], env.drv)
             IN  IF r.ok
                 THEN Outcome(Put(aa, app.ProcessName, app),
                              Put(car, mon, app.Resolution),
                              [lv EXCEPT ![mon] = r.mode],
                              {Call(mon, app.Resolution, r)}, TRUE)
                 ELSE Outcome(aa, car, [lv EXCEPT ![mon] = r.mode],
                              {Call(mon, app.Resolution, r)}, FALSE)

\* variant used to test the claims: the rule's restore resolution is ignored
RestoreTargetOriginalOnly(app, orig) ==
    IF app.MonitorName \in DOMAIN orig THEN Ptr(orig[app.MonitorName])
    ELSE NilRes

\* the restore target of a stop edge: <<>> when there is none
RestoreTarget(app, orig) ==
    IF app.RestoreResolution /= NilRes THEN app.RestoreResolution
    ELSE IF app.MonitorName \in DOMAIN orig THEN Ptr(orig[app.MonitorName])
    ELSE NilRes

\* variant used to test the claims: a stop edge drops the override entry
\* whatever became of the revert
handleAppStoppedDropsEntry(app, aa, car, orig, lv, env) ==
    LET mon == app.MonitorName
        rest == Del(aa, app.ProcessName)
        target == RestoreTarget(app, orig)
    IN  IF OtherActiveOnMonitor(app, aa) THEN Outcome(rest, car, lv, {}, TRUE)
        ELSE IF target = NilRes \/ ~env.queryOk
        THEN Outcome(rest, Del(car, mon), lv, {}, FALSE)
        ELSE IF IsResolutionEqual(lv[mon], target[1])
        THEN Outcome(rest, Del(car, mon), lv, {}, TRUE)
        ELSE LET r == ChangeResolutionForMonitor(target[1], mon, lv[mon], env.drv)
             IN  Outcome(rest, Del(car, mon), [lv EXCEPT ![mon] = r.mode],
                         {Call(mon, target[1], r)}, r.ok)

\* stop edge
handleAppStopped(app, aa, car, orig, lv, env) ==
    LET mon == app.MonitorName
        rest == Del(aa, app.ProcessName)
        target == RestoreTarget(app, orig)
    IN  IF OtherActiveOnMonitor(app, aa) THEN Outcome(rest, car, lv, {}, TRUE)
        ELSE IF target = NilRes \/ ~env.queryOk THEN Outcome(rest, car, lv, {}, FALSE)
        ELSE IF IsResolutionEqual(lv[mon], target[1])
        THEN Outcome(rest, Del(car, mon), lv, {}, TRUE)
        ELSE LET r == ChangeResolutionForMonitor(target[1], mon, lv[mon], env.drv)
             IN  IF r.ok
                 THEN Outcome(rest, Del(car, mon), [lv EXCEPT ![mon] = r.mode],
                              {Call(mon, target[1], r)}, TRUE)
                 ELSE Outcome(rest, car, [lv EXCEPT ![mon] = r.mode],
                              {Call(mon, target[1], r)}, FALSE)

\* the restore loop of stopMonitoring: every overridden monitor that has a
\* captured original is set back to it, whatever the other calls returned;
\* drvs[m] is the driver's behaviour during the call for monitor m
RestoreSet(car, orig) == (DOMAIN car) \cap (DOMAIN orig)

\* variant used to test the claims: the loop ends at a failed call
RestoreOriginalsStopsAtFailure(car, orig, lv, drvs) ==
    LET all == RestoreSet(car, orig)
        res(m) == ChangeResolutionForMonitor(orig[m], m, lv[m], drvs[m])
        todo == IF Primary \in all /\ ~res(Primary).ok THEN {Primary} ELSE all
    IN  [live  |-> [m \in DOMAIN lv |-> IF m \in todo THEN res(m).mode ELSE lv[m]],
         calls |-> {Call(m, orig[m], res(m)) : m \in todo}]

RestoreOriginals(car, orig, lv, drvs) ==
    LET todo == RestoreSet(car, orig)
        res(m) == ChangeResolutionForMonitor(orig[m], m, lv[m], drvs[m])
    IN  [live  |-> [m \in DOMAIN lv |-> IF m \in todo THEN res(m).mode ELSE lv[m]],
         calls |-> {Call(m, orig[m], res(m)) : m \in todo}]

\* ResolutionMonitor.shutdown: the same restore, to the captured originals
shutdown(car, orig, lv, drvs) == RestoreOriginals(car, orig, lv, drvs)

----------------------------------------------------------------------------
(* Inputs of the environment *)

DefaultPeriod == 2

Drv(ok, rets) == [stateOk |-> ok, rets |-> rets]
DrvOk   == Drv(TRUE, <<DISP_CHANGE_SUCCESSFUL, DISP_CHANGE_SUCCESSFUL, DISP_CHANGE_SUCCESSFUL>>)
DrvBusy == Drv(TRUE, <<DISP_CHANGE_FAILED, DISP_CHANGE_FAILED, DISP_CHANGE_FAILED>>)
MainDrivers == {DrvOk, DrvBusy}

Envs == {[queryOk |-> q, drv |-> d] : q \in BOOLEAN, d \in MainDrivers}

\* the monitors whose resolution NewResolutionMonitor manages to capture
CaptureSets == {Monitors, {Primary}}

PollChoices == {0, 5}

----------------------------------------------------------------------------
(* State *)

NoConfig == Cfg(<<>>, 0)

NoCall == [called |-> FALSE]

\* Run has finished its startup: the file existed and the goroutines run
BootDone == [phase |-> "running", created |-> FALSE, doc |-> NoCall]

\* the reload path and the process check at rest
WlogInit == [parsed |-> NoConfig, delivered |-> NoConfig, handled |-> FALSE]

OtherInit ==
    /\ configChan = <<>>
    /\ errorChan = <<>>
    /\ events = 0
    /\ wpc = "select"
    /\ shown = NoConfig
    /\ wlog = WlogInit
    /\ mp = NoCall
    /\ boot = BootDone
    /\ ec = NoCall

\* last: the operation of the last step; for an edge its process, its monitor,
\* whether another recorded rule shared the monitor (stop edge), whether the
\* previous start edge of the process had failed (start edge), the SetMode
\* calls it made and whether it succeeded
Step(op, proc, mon, shared, retry, calls, ok) ==
    [op |-> op, proc |-> proc, mon |-> mon, shared |-> shared, retry |-> retry,
     calls |-> calls, ok |-> ok]
Plain(op) == Step(op, "", "", FALSE, FALSE, {}, TRUE)

\* hist, the history of the run:
\*  mon[m]  "untouched", "clean" (overridden, every revert so far succeeded and
\*          went to the captured original), "explicit" (a stop edge reverted it
\*          to a rule's restore_resolution), "failed" (a revert did not succeed)
\*  failed  the processes whose latest start edge failed
\*  quiet   no handler of the GUI goroutine ran since the last process snapshot
\*  same    the running check works on the same snapshot and rules as the one
\*          before it, and no handler ran in between
HistInit ==
    [mon |-> [m \in Monitors |-> "untouched"], failed |-> {}, quiet |-> FALSE,
     same |-> FALSE]

HistAfterHandler(h) == [h EXCEPT !.quiet = FALSE, !.same = FALSE]

HistAfterSnapshot(h, ra, before) ==
    [h EXCEPT !.same = h.quiet /\ ra = before, !.quiet = TRUE,
              !.failed = h.failed \cap DOMAIN ra]

HistAfterStart(h, app, o) ==
    LET mon == app.MonitorName
    IN  [h EXCEPT !.mon = IF o.ok /\ h.mon[mon] = "untouched"
                          THEN [h.mon EXCEPT ![mon] = "clean"] ELSE h.mon,
                  !.failed = IF o.ok THEN h.failed \ {app.ProcessName}
                             ELSE h.failed \cup {app.ProcessName}]

HistAfterStop(h, app, shared, o) ==
    LET mon == app.MonitorName
    IN  [h EXCEPT !.mon =
            IF shared \/ h.mon[mon] = "failed" THEN h.mon
            ELSE IF ~o.ok THEN [h.mon EXCEPT ![mon] = "failed"]
            ELSE IF app.RestoreResolution /= NilRes
                 THEN [h.mon EXCEPT ![mon] = "explicit"]
            ELSE h.mon]

HistAfterRestore(h, car, calls) ==
    [HistAfterHandler(h) EXCEPT !.mon =
        [m \in DOMAIN h.mon |->
            IF m \in DOMAIN car /\ h.mon[m] /= "failed"
               /\ ~(\E c \in calls : c.mon = m /\ c.ok)
            THEN "failed" ELSE h.mon[m]]]

Init ==
    /\ OtherInit
    /\ live = [m \in Monitors |-> Native]
    /\ file \in {Cfg(a, DefaultPeriod) : a \in AppLists}
    /\ resMonitor = FALSE
    /\ isRunning = FALSE
    /\ exited = FALSE
    /\ config = NoConfig
    /\ originalRes = EmptyMap
    /\ currentAppRes = EmptyMap
    /\ activeApps = EmptyMap
    /\ pc = "idle"
    /\ runningApps = EmptyMap
    /\ tried = {}
    /\ period = DefaultPeriod
    /\ last = Plain("init")
    /\ hist = HistInit
    /\ edits = 0
    /\ dm = NoCall

----------------------------------------------------------------------------
(* GUI goroutine: handlers of gui.go *)

\* NewResolutionMonitor (called by startMonitoring when g.resMonitor is nil)
NewResolutionMonitor(captured) ==
    /\ config' = LoadConfig(file)
    /\ originalRes' = [m \in captured |-> live[m]]
    /\ currentAppRes' = EmptyMap
    /\ activeApps' = EmptyMap

\* variant used to test the claims: every start captures the originals anew
startMonitoringRecaptures ==
    /\ ~exited /\ ~isRunning
    /\ \E captured \in CaptureSets :
         /\ config' = LoadConfig(file)
         /\ originalRes' = [m \in captured |-> live[m]]
         /\ UNCHANGED <<currentAppRes, activeApps>>
    /\ resMonitor' = TRUE
    /\ isRunning' = TRUE
    /\ last' = Plain("startMonitoring")
    /\ hist' = HistAfterHandler(hist)
    /\ UNCHANGED <<live, file, exited, pc, runningApps, tried, period, edits, dm>>
    /\ UNCHANGED otherVars

startMonitoring ==
    /\ ~exited /\ ~isRunning
    /\ resMonitor \/ ~LoadFails(file)
    /\ IF resMonitor
       THEN UNCHANGED <<config, originalRes, currentAppRes, activeApps>>
       ELSE \E captured \in CaptureSets : NewResolutionMonitor(captured)
    /\ resMonitor' = TRUE
    /\ isRunning' = TRUE
    /\ last' = Plain("startMonitoring")
    /\ hist' = HistAfterHandler(hist)
    /\ UNCHANGED <<live, file, exited, pc, runningApps, tried, period, edits, dm>>
    /\ UNCHANGED otherVars

\* variant used to test the claims: the maps are kept when a restore failed
stopMonitoringKeepsFailed ==
    /\ ~exited /\ isRunning
    /\ isRunning' = FALSE
    /\ \E drvs \in [RestoreSet(currentAppRes, originalRes) -> MainDrivers] :
         LET r == RestoreOriginals(currentAppRes, originalRes, live, drvs)
             failed == \E c \in r.calls : ~c.ok
         IN  /\ live' = r.live
             /\ activeApps' = IF failed THEN activeApps ELSE EmptyMap
             /\ currentAppRes' = IF failed THEN currentAppRes ELSE EmptyMap
             /\ hist' = HistAfterRestore(hist, currentAppRes, r.calls)
             /\ last' = Step("stopMonitoring", "", "", FALSE, FALSE, r.calls, TRUE)
    /\ UNCHANGED <<file, resMonitor, exited, config, originalRes, pc, runningApps, tried, period, edits, dm>>
    /\ UNCHANGED otherVars

stopMonitoring ==
    /\ ~exited /\ isRunning
    /\ isRunning' = FALSE
    /\ IF resMonitor
       THEN \E drvs \in [RestoreSet(currentAppRes, originalRes) -> MainDrivers] :
              LET r == RestoreOriginals(currentAppRes, originalRes, live, drvs)
              IN  /\ live' = r.live
                  /\ activeApps' = EmptyMap
                  /\ currentAppRes' = EmptyMap
                  /\ hist' = HistAfterRestore(hist, currentAppRes, r.calls)
                  /\ last' = Step("stopMonitoring", "", "", FALSE, FALSE, r.calls, TRUE)
       ELSE /\ UNCHANGED <<live, activeApps, currentAppRes>>
            /\ hist' = HistAfterHandler(hist)
            /\ last' = Plain("stopMonitoring")
    /\ UNCHANGED <<file, resMonitor, exited, config, originalRes, pc, runningApps, tried, period, edits, dm>>
    /\ UNCHANGED otherVars

quit ==
    /\ ~exited
    /\ exited' = TRUE
    /\ IF resMonitor
       THEN \E drvs \in [RestoreSet(currentAppRes, originalRes) -> MainDrivers] :
              LET r == shutdown(currentAppRes, originalRes, live, drvs)
              IN  /\ live' = r.live
                  /\ activeApps' = EmptyMap
                  /\ currentAppRes' = EmptyMap
                  /\ hist' = HistAfterRestore(hist, currentAppRes, r.calls)
                  /\ last' = Step("quit", "", "", FALSE, FALSE, r.calls, TRUE)
       ELSE /\ UNCHANGED <<live, activeApps, currentAppRes>>
            /\ hist' = HistAfterHandler(hist)
            /\ last' = Plain("quit")
    /\ UNCHANGED <<file, resMonitor, isRunning, config, originalRes, pc, runningApps, tried, period, edits, dm>>
    /\ UNCHANGED otherVars

\* variant used to test the claims: a new configuration resets the bookkeeping
ReplaceConfigResets(c, op) ==
    /\ file' = c
    /\ config' = IF resMonitor THEN c ELSE config
    /\ activeApps' = EmptyMap
    /\ currentAppRes' = EmptyMap
    /\ edits' = edits + 1
    /\ last' = Plain(op)
    /\ hist' = HistAfterHandler(hist)
    /\ UNCHANGED <<live, resMonitor, isRunning, exited, originalRes,
                   pc, runningApps, tried, period, dm>>
    /\ UNCHANGED otherVars

\* the configuration a handler writes to the file is also handed to the monitor
ReplaceConfig(c, op) ==
    /\ file' = c
    /\ config' = IF resMonitor THEN c ELSE config
    /\ edits' = edits + 1
    /\ last' = Plain(op)
    /\ hist' = HistAfterHandler(hist)
    /\ UNCHANGED <<live, resMonitor, isRunning, exited, originalRes, currentAppRes,
                   activeApps, pc, runningApps, tried, period, dm>>
    /\ UNCHANGED otherVars

saveSettings ==
    /\ ~exited /\ edits < MaxEdits
    /\ \E pollInterval \in PollChoices :
         /\ pollInterval >= 1
         /\ ReplaceConfig([LoadConfig(file) EXCEPT !.PollInterval = pollInterval],
                          "saveSettings")

\* the rule match of deleteApplication: process name and resolution, and the
\* monitor when either side names one
IsMatch(configApp, app) ==
    /\ configApp.ProcessName = app.ProcessName
    /\ IsResolutionEqual(configApp.Resolution, app.Resolution)
    /\ (configApp.MonitorName /= "" \/ app.MonitorName /= ""
          => configApp.MonitorName = app.MonitorName)

deleteApplication ==
    /\ ~exited /\ edits < MaxEdits
    /\ \E i \in 1..Len(file.Applications) :
         LET c == LoadConfig(file)
             newApps == SelectSeq(c.Applications,
                                  LAMBDA a : ~IsMatch(a, file.Applications[i]))
         IN  ReplaceConfig([c EXCEPT !.Applications = newApps], "deleteApplication")

----------------------------------------------------------------------------
(* Poll goroutine: runResolutionMonitor and ResolutionMonitor.checkRunningApps *)

\* start edges: configured applications that run and are not recorded yet
PendingStarts(ra, aa, tr) == {p \in DOMAIN ra : p \notin DOMAIN aa /\ p \notin tr}
\* stop edges: recorded applications that no longer run
PendingStops(ra, aa) == {p \in DOMAIN aa : p \notin DOMAIN ra}

\* variant used to test the claims: a failed start edge ends the pass
AfterStartsAbortOnFailure(ra, aa, tr) ==
    IF \E p \in tr : p \notin DOMAIN aa THEN "timer"
    ELSE IF PendingStarts(ra, aa, tr) /= {} THEN "starts"
    ELSE IF PendingStops(ra, aa) /= {} THEN "stops"
    ELSE "timer"

AfterStarts(ra, aa, tr) ==
    IF PendingStarts(ra, aa, tr) /= {} THEN "starts"
    ELSE IF PendingStops(ra, aa) /= {} THEN "stops"
    ELSE "timer"

AfterStops(ra, aa) == IF PendingStops(ra, aa) /= {} THEN "stops" ELSE "timer"

\* case <-ticker.C while monitoring is off: nothing is checked
TickSkipped ==
    /\ ~exited /\ pc = "idle"
    /\ ~(isRunning /\ resMonitor)
    /\ last' = Plain("tickSkipped")
    /\ UNCHANGED <<live, file, resMonitor, isRunning, exited, config, originalRes,
                   currentAppRes, activeApps, pc, runningApps, tried,
                   period, hist, edits, dm>>
    /\ UNCHANGED otherVars

\* case <-ticker.C: checkRunningApps takes the process snapshot
TickBegin ==
    /\ ~exited /\ pc = "idle"
    /\ isRunning /\ resMonitor
    /\ \E procs \in SUBSET OsProcs :
         LET ra == MonitorProcesses(config, procs)
         IN  /\ runningApps' = ra
             /\ tried' = {}
             /\ pc' = AfterStarts(ra, activeApps, {})
             /\ hist' = HistAfterSnapshot(hist, ra, runningApps)
    /\ last' = Plain("tick")
    /\ UNCHANGED <<live, file, resMonitor, isRunning, exited, config, originalRes,
                   currentAppRes, activeApps, period, edits, dm>>
    /\ UNCHANGED otherVars

\* variant used to test the claims: a failed snapshot ends the monitoring
TickSnapshotErrorFatal ==
    /\ ~exited /\ pc = "idle"
    /\ isRunning /\ resMonitor
    /\ pc' = "timer"
    /\ isRunning' = FALSE
    /\ last' = Plain("snapshotError")
    /\ hist' = HistAfterHandler(hist)
    /\ UNCHANGED <<live, file, resMonitor, exited, config, originalRes,
                   currentAppRes, activeApps, runningApps, tried,
                   period, edits, dm>>
    /\ UNCHANGED otherVars

\* the process snapshot fails: checkRunningApps returns the error
TickSnapshotError ==
    /\ ~exited /\ pc = "idle"
    /\ isRunning /\ resMonitor
    /\ pc' = "timer"
    /\ last' = Plain("snapshotError")
    /\ hist' = HistAfterHandler(hist)
    /\ UNCHANGED <<live, file, resMonitor, isRunning, exited, config, originalRes,
                   currentAppRes, activeApps, runningApps, tried,
                   period, edits, dm>>
    /\ UNCHANGED otherVars

StartEdge ==
    /\ ~exited /\ pc = "starts"
    /\ \E p \in PendingStarts(runningApps, activeApps, tried), env \in Envs :
         LET app == runningApps[p]
             o == handleAppStarted(app, activeApps, currentAppRes, originalRes, live, env)
         IN  /\ activeApps' = o.activeApps
             /\ currentAppRes' = o.currentAppRes
             /\ live' = o.live
             /\ tried' = tried \cup {p}
             /\ pc' = AfterStarts(runningApps, o.activeApps, tried \cup {p})
             /\ hist' = HistAfterStart(hist, app, o)
             /\ last' = Step("start", p, app.MonitorName, FALSE, p \in hist.failed,
                             o.calls, o.ok)
    /\ UNCHANGED <<file, resMonitor, isRunning, exited, config, originalRes,
                   runningApps, period, edits, dm>>
    /\ UNCHANGED otherVars

StopEdge ==
    /\ ~exited /\ pc = "stops"
    /\ \E p \in PendingStops(runningApps, activeApps), env \in Envs :
         LET app == activeApps[p]
             shared == \E q \in DOMAIN activeApps :
                          q /= p /\ activeApps[q].MonitorName = app.MonitorName
             o == handleAppStopped(app, activeApps, currentAppRes, originalRes, live, env)
         IN  /\ activeApps' = o.activeApps
             /\ currentAppRes' = o.currentAppRes
             /\ live' = o.live
             /\ pc' = AfterStops(runningApps, o.activeApps)
             /\ hist' = HistAfterStop(hist, app, shared, o)
             /\ last' = Step("stop", p, app.MonitorName, shared, FALSE, o.calls, o.ok)
    /\ UNCHANGED <<file, resMonitor, isRunning, exited, config, originalRes,
                   runningApps, tried, period, edits, dm>>
    /\ UNCHANGED otherVars

\* the stop loop ends early: a handler emptied activeApps under it
StopLoopEnd ==
    /\ ~exited /\ pc = "stops"
    /\ PendingStops(runningApps, activeApps) = {}
    /\ pc' = "timer"
    /\ last' = Plain("noStop")
    /\ UNCHANGED <<live, file, resMonitor, isRunning, exited, config, originalRes,
                   currentAppRes, activeApps, runningApps, tried,
                   period, hist, edits, dm>>
    /\ UNCHANGED otherVars

\* variant used to test the claims: after the check, a monitor that is still
\* overridden with no rule recorded on it is set back to its original
TimerUpdateRetriesRevert ==
    /\ ~exited /\ pc = "timer"
    /\ period' = IF config.PollInterval > 0 THEN config.PollInterval ELSE period
    /\ pc' = "idle"
    /\ tried' = {}
    /\ LET stuck == {m \in RestoreSet(currentAppRes, originalRes) :
                       ~\E q \in DOMAIN activeApps : activeApps[q].MonitorName = m}
       IN  /\ live' = [m \in DOMAIN live |->
                         IF m \in stuck THEN originalRes[m] ELSE live[m]]
           /\ last' = Step("timer", "", "", FALSE, FALSE,
                           {Call(m, originalRes[m], [ok |-> TRUE]) : m \in stuck}, TRUE)
    /\ UNCHANGED <<file, resMonitor, isRunning, exited, config, originalRes,
                   currentAppRes, activeApps, runningApps, hist, edits, dm>>
    /\ UNCHANGED otherVars

\* after checkRunningApps: the ticker is recreated with the configured interval
TimerUpdate ==
    /\ ~exited /\ pc = "timer"
    /\ period' = IF config.PollInterval > 0 THEN config.PollInterval ELSE period
    /\ pc' = "idle"
    /\ tried' = {}
    /\ last' = Plain("timer")
    /\ UNCHANGED <<live, file, resMonitor, isRunning, exited, config, originalRes,
                   currentAppRes, activeApps, runningApps, hist, edits, dm>>
    /\ UNCHANGED otherVars

Next ==
    \/ startMonitoring
    \/ stopMonitoring
    \/ quit
    \/ saveSettings
    \/ deleteApplication
    \/ TickSkipped
    \/ TickBegin
    \/ TickSnapshotError
    \/ StartEdge
    \/ StopEdge
    \/ StopLoopEnd
    \/ TimerUpdate

Spec == Init /\ [][Next]_vars

----------------------------------------------------------------------------
(* The display layer alone: one ChangeResolutionForMonitor call per run *)

DisplayResolutions == {Native, Low144, LowAny, Tiny75}
DisplayDrivers == {Drv(ok, rets) : ok \in BOOLEAN, rets \in [1..maxRetries -> RetCodes]}

InitDisplay ==
    /\ OtherInit
    /\ \E m \in Monitors, cur \in {Native, Low60} :
         /\ live = [x \in Monitors |-> IF x = m THEN cur ELSE Native]
         /\ \E res \in DisplayResolutions, drv \in DisplayDrivers :
              dm = [called |-> FALSE, resolution |-> res, monitorName |-> m, drv |-> drv]
    /\ file = Cfg(<<>>, DefaultPeriod)
    /\ resMonitor = FALSE
    /\ isRunning = FALSE
    /\ exited = FALSE
    /\ config = NoConfig
    /\ originalRes = EmptyMap
    /\ currentAppRes = EmptyMap
    /\ activeApps = EmptyMap
    /\ pc = "idle"
    /\ runningApps = EmptyMap
    /\ tried = {}
    /\ period = DefaultPeriod
    /\ last = Plain("init")
    /\ hist = HistInit
    /\ edits = 0

DisplayCall ==
    /\ ~dm.called
    /\ LET r == ChangeResolutionForMonitor(dm.resolution, dm.monitorName,
                                           live[dm.monitorName], dm.drv)
       IN  /\ dm' = [called |-> TRUE, resolution |-> dm.resolution,
                     monitorName |-> dm.monitorName, drv |-> dm.drv,
                     before |-> live[dm.monitorName], result |-> r]
           /\ live' = [live EXCEPT ![dm.monitorName] = r.mode]
    /\ UNCHANGED <<file, resMonitor, isRunning, exited, config, originalRes,
                   currentAppRes, activeApps, pc, runningApps, tried,
                   period, last, hist, edits>>
    /\ UNCHANGED otherVars

SpecDisplay == InitDisplay /\ [][DisplayCall]_vars

----------------------------------------------------------------------------
(* The process check alone: one MonitorProcesses call per run *)

RECURSIVE SeqsUpTo(_, _)
SeqsUpTo(S, n) ==
    IF n = 0 THEN {<<>>}
    ELSE LET shorter == SeqsUpTo(S, n - 1)
         IN  shorter \cup {Append(q, x) : q \in shorter, x \in S}

ProcRules == {RuleCs, RuleGame, RuleGameR}

InitProc ==
    /\ \E apps \in SeqsUpTo(ProcRules, MaxRules), processes \in SUBSET OsProcs :
         mp = [called |-> FALSE, config |-> Cfg(apps, DefaultPeriod),
               processes |-> processes]
    /\ configChan = <<>>
    /\ errorChan = <<>>
    /\ events = 0
    /\ wpc = "select"
    /\ shown = NoConfig
    /\ wlog = WlogInit
    /\ boot = BootDone
    /\ ec = NoCall
    /\ live = [m \in Monitors |-> Native]
    /\ file = Cfg(<<>>, DefaultPeriod)
    /\ resMonitor = FALSE
    /\ isRunning = FALSE
    /\ exited = FALSE
    /\ config = NoConfig
    /\ originalRes = EmptyMap
    /\ currentAppRes = EmptyMap
    /\ activeApps = EmptyMap
    /\ pc = "idle"
    /\ runningApps = EmptyMap
    /\ tried = {}
    /\ period = DefaultPeriod
    /\ last = Plain("init")
    /\ hist = HistInit
    /\ edits = 0
    /\ dm = NoCall

MonitorCall ==
    /\ ~mp.called
    /\ mp' = [called |-> TRUE, config |-> mp.config, processes |-> mp.processes,
              result |-> MonitorProcesses(mp.config, mp.processes)]
    /\ UNCHANGED <<live, file, resMonitor, isRunning, exited, config, originalRes,
                   currentAppRes, activeApps, pc, runningApps, tried,
                   period, last, hist, edits, dm>>
    /\ UNCHANGED <<configChan, errorChan, events, wpc, shown, wlog, boot, ec>>

SpecProc == InitProc /\ [][MonitorCall]_vars

----------------------------------------------------------------------------
(* The reload path: ConfigWatcher.Start, the goroutine of Run that receives  *)
(* from its channels, and reloadConfig; run with a configuration without     *)
(* rules, so that a check has no edges                                       *)

WatcherFiles == {Cfg(<<>>, 2), Cfg(<<>>, 5), BadFile}

InitWatcher ==
    /\ file = Cfg(<<>>, DefaultPeriod)
    /\ shown = LoadConfig(file)
    /\ configChan = <<>>
    /\ errorChan = <<>>
    /\ events = 0
    /\ wpc = "select"
    /\ wlog = WlogInit
    /\ mp = NoCall
    /\ boot = BootDone
    /\ ec = NoCall
    /\ live = [m \in Monitors |-> Native]
    /\ resMonitor = FALSE
    /\ isRunning = FALSE
    /\ exited = FALSE
    /\ config = NoConfig
    /\ originalRes = EmptyMap
    /\ currentAppRes = EmptyMap
    /\ activeApps = EmptyMap
    /\ pc = "idle"
    /\ runningApps = EmptyMap
    /\ tried = {}
    /\ period = DefaultPeriod
    /\ last = Plain("init")
    /\ hist = HistInit
    /\ edits = 0
    /\ dm = NoCall

monitorVars == <<live, resMonitor, isRunning, exited, config, originalRes,
                 currentAppRes, activeApps, pc, runningApps, tried, period, hist, dm, mp,
                 boot, ec>>

\* another program writes the configuration file: fsnotify queues a write event
FileWrite ==
    /\ ~exited /\ edits < MaxWrites
    /\ \E c \in WatcherFiles : file' = c
    /\ events' = events + 1
    /\ edits' = edits + 1
    /\ last' = Plain("fileWrite")
    /\ UNCHANGED <<configChan, errorChan, wpc, shown, wlog>>
    /\ UNCHANGED monitorVars

\* variant used to test the claims: a failed load still sends a configuration
WatcherEventSendsOnError ==
    /\ ~exited /\ wpc = "select" /\ events > 0
    /\ events' = events - 1
    /\ configChan' = IF Len(configChan) < 1 THEN Append(configChan, NoConfig)
                     ELSE configChan
    /\ wpc' = IF LoadFails(file) THEN "sendError" ELSE wpc
    /\ last' = Plain(IF LoadFails(file) THEN "watcherLoadError" ELSE "watcherSend")
    /\ UNCHANGED <<file, errorChan, shown, wlog, edits>>
    /\ UNCHANGED monitorVars

\* case event := <-cw.watcher.Events, a write of the config file: the file is
\* loaded; an error goes to errorChan (a blocking send), a configuration goes
\* to configChan unless the channel is full
WatcherEvent ==
    /\ ~exited /\ wpc = "select" /\ events > 0
    /\ events' = events - 1
    /\ IF LoadFails(file)
       THEN /\ wpc' = "sendError"
            /\ last' = Plain("watcherLoadError")
            /\ UNCHANGED <<configChan, wlog>>
       ELSE /\ wlog' = [wlog EXCEPT !.parsed = LoadConfig(file)]
            /\ IF Len(configChan) < 1
               THEN /\ configChan' = Append(configChan, LoadConfig(file))
                    /\ last' = Plain("watcherSend")
               ELSE /\ configChan' = configChan
                    /\ last' = Plain("watcherSkip")
            /\ wpc' = wpc
    /\ UNCHANGED <<file, errorChan, shown, edits>>
    /\ UNCHANGED monitorVars

\* cw.errorChan <- err completes once the channel has room
WatcherSendError ==
    /\ ~exited /\ wpc = "sendError"
    /\ Len(errorChan) < 1
    /\ errorChan' = Append(errorChan, "failed to reload config")
    /\ wpc' = "select"
    /\ last' = Plain("watcherSendError")
    /\ UNCHANGED <<file, configChan, events, shown, wlog, edits>>
    /\ UNCHANGED monitorVars

\* case <-watcher.ConfigChan(): reloadConfig runs on the GUI goroutine; it loads
\* the file again and refreshes the widgets
ConsumeConfig ==
    /\ ~exited /\ configChan /= <<>>
    /\ configChan' = Tail(configChan)
    /\ wlog' = [wlog EXCEPT !.delivered = Head(configChan), !.handled = TRUE]
    /\ shown' = IF LoadFails(file) THEN shown ELSE LoadConfig(file)
    /\ last' = Plain("reloadConfig")
    /\ UNCHANGED <<file, errorChan, events, wpc, edits>>
    /\ UNCHANGED monitorVars

\* case err := <-watcher.ErrorChan(): the error is logged
ConsumeError ==
    /\ ~exited /\ errorChan /= <<>>
    /\ errorChan' = Tail(errorChan)
    /\ last' = Plain("watcherError")
    /\ UNCHANGED <<file, configChan, events, wpc, shown, wlog, edits>>
    /\ UNCHANGED monitorVars

NextWatcher ==
    \/ startMonitoring
    \/ FileWrite
    \/ WatcherEvent
    \/ WatcherSendError
    \/ ConsumeConfig
    \/ ConsumeError
    \/ TickSkipped
    \/ TickBegin
    \/ TimerUpdate

SpecWatcher == InitWatcher /\ [][NextWatcher]_vars

\* the watcher goroutine keeps running: a step of it that stays possible is
\* taken; nothing is assumed about the goroutine that receives from the channels
SpecWatcherLive ==
    SpecWatcher /\ WF_vars(WatcherEvent) /\ WF_vars(WatcherSendError)

----------------------------------------------------------------------------
(* Startup: GUIApp.Run up to the start of the goroutines, then the poll loop *)
(* and the stop button                                                       *)

\* the documents found at the configuration path
StoredDocs ==
    {[applications |-> <<RuleCs, RuleGame>>, poll_interval |-> pi,
      auto_start_monitoring |-> a] : pi \in -MaxStoredPoll..MaxStoredPoll, a \in BOOLEAN}
    \cup {[applications |-> <<RuleCs, RuleGame>>, auto_start_monitoring |-> a] :
             a \in BOOLEAN}

\* createDefaultConfig: the configuration written when the file does not exist
DefaultConfigs ==
    {[Applications |-> <<RuleCs>>, PollInterval |-> DefaultPeriod,
      AutoStartMonitoring |-> a] : a \in BOOLEAN}

InitStartup ==
    /\ \/ \E doc \in StoredDocs :
            /\ file = Unmarshal(doc)
            /\ boot = [phase |-> "launch", created |-> FALSE, doc |-> doc]
       \/ /\ file \in {Absent, BadFile}
          /\ boot = [phase |-> "launch", created |-> FALSE, doc |-> NoCall]
    /\ shown = NoConfig
    /\ configChan = <<>>
    /\ errorChan = <<>>
    /\ events = 0
    /\ wpc = "select"
    /\ wlog = WlogInit
    /\ mp = NoCall
    /\ ec = NoCall
    /\ live = [m \in Monitors |-> Native]
    /\ resMonitor = FALSE
    /\ isRunning = FALSE
    /\ exited = FALSE
    /\ config = NoConfig
    /\ originalRes = EmptyMap
    /\ currentAppRes = EmptyMap
    /\ activeApps = EmptyMap
    /\ pc = "notStarted"
    /\ runningApps = EmptyMap
    /\ tried = {}
    /\ period = DefaultPeriod
    /\ last = Plain("init")
    /\ hist = HistInit
    /\ edits = 0
    /\ dm = NoCall

\* Run, first part: loadConfig creates the default file when there is none and
\* loads the file into the widgets; an error ends Run
RunLoadConfig ==
    /\ boot.phase = "launch"
    /\ \E written \in DefaultConfigs :
         file' = IF IsNotExist(file) THEN written ELSE file
    /\ IF LoadFails(file')
       THEN /\ boot' = [boot EXCEPT !.phase = "failed"]
            /\ exited' = TRUE
            /\ shown' = shown
       ELSE /\ boot' = [boot EXCEPT !.phase = "loaded", !.created = IsNotExist(file)]
            /\ exited' = exited
            /\ shown' = LoadConfig(file')
    /\ last' = Plain("loadConfig")
    /\ UNCHANGED <<live, resMonitor, isRunning, config, originalRes, currentAppRes,
                   activeApps, pc, runningApps, tried, period, hist, edits, dm,
                   configChan, errorChan, events, wpc, wlog, mp, ec>>

\* Run, second part: monitoring is started if the configuration asks for it,
\* then the poll goroutine is started (go g.runResolutionMonitor())
RunAutoStart ==
    /\ boot.phase = "loaded"
    /\ boot' = [boot EXCEPT !.phase = "running"]
    /\ pc' = "idle"
    /\ IF LoadConfig(file).AutoStartMonitoring
       THEN /\ \E captured \in CaptureSets : NewResolutionMonitor(captured)
            /\ resMonitor' = TRUE
            /\ isRunning' = TRUE
            /\ last' = Plain("startMonitoring")
       ELSE /\ UNCHANGED <<config, originalRes, currentAppRes, activeApps,
                           resMonitor, isRunning>>
            /\ last' = Plain("run")
    /\ hist' = HistAfterHandler(hist)
    /\ UNCHANGED <<live, file, exited, runningApps, tried, period, edits, dm,
                   configChan, errorChan, events, wpc, shown, wlog, mp, ec>>

NextStartup ==
    \/ RunLoadConfig
    \/ RunAutoStart
    \/ stopMonitoring
    \/ TickSkipped
    \/ TickBegin
    \/ TickSnapshotError
    \/ StartEdge
    \/ StopEdge
    \/ StopLoopEnd
    \/ TimerUpdate

SpecStartup == InitStartup /\ [][NextStartup]_vars

----------------------------------------------------------------------------
(* One stop edge alone: handleAppStopped on bookkeeping and a display drawn  *)
(* from the values a run can leave or the user can set                       *)

\* a rule whose restore resolution is what another rule targets
RuleCsR == App("cs2.exe", Low144, Display2, Ptr(Mid60))
\* rules whose restore resolution has no frequency, or is not a supported mode
RuleGameAny == App("Game.exe", Mid60, Primary, Ptr(LowAny))
RuleCsTiny == App("cs2.exe", Low144, Display2, Ptr(Tiny75))
EdgeRules == {RuleCs, RuleCsR, RuleCsTiny, RuleGame, RuleGameR, RuleGameAny}
EdgeResolutions == {Native, Low144, Mid60}

InitEdge ==
    /\ \E app \in EdgeRules, other \in EdgeRules, lvm \in EdgeResolutions,
          captured \in CaptureSets, env \in Envs, kept \in BOOLEAN, alone \in BOOLEAN :
         LET mon == app.MonitorName
             own == Put(EmptyMap, app.ProcessName, app)
         IN  /\ alone \/ other.ProcessName /= app.ProcessName
             /\ ec = [called |-> FALSE,
                      app |-> app,
                      activeApps |-> IF alone THEN own
                                     ELSE Put(own, other.ProcessName, other),
                      currentAppRes |-> IF kept THEN Put(EmptyMap, mon, app.Resolution)
                                        ELSE EmptyMap,
                      originalRes |-> [m \in captured |-> Native],
                      live |-> [m \in Monitors |-> IF m = mon THEN lvm ELSE Native],
                      env |-> env]
    /\ configChan = <<>>
    /\ errorChan = <<>>
    /\ events = 0
    /\ wpc = "select"
    /\ shown = NoConfig
    /\ wlog = WlogInit
    /\ mp = NoCall
    /\ boot = BootDone
    /\ live = [m \in Monitors |-> Native]
    /\ file = Cfg(<<>>, DefaultPeriod)
    /\ resMonitor = FALSE
    /\ isRunning = FALSE
    /\ exited = FALSE
    /\ config = NoConfig
    /\ originalRes = EmptyMap
    /\ currentAppRes = EmptyMap
    /\ activeApps = EmptyMap
    /\ pc = "idle"
    /\ runningApps = EmptyMap
    /\ tried = {}
    /\ period = DefaultPeriod
    /\ last = Plain("init")
    /\ hist = HistInit
    /\ edits = 0
    /\ dm = NoCall

StopCall ==
    /\ ~ec.called
    /\ ec' = [called |-> TRUE, app |-> ec.app, activeApps |-> ec.activeApps,
              currentAppRes |-> ec.currentAppRes, originalRes |-> ec.originalRes,
              live |-> ec.live, env |-> ec.env,
              result |-> handleAppStopped(ec.app, ec.activeApps, ec.currentAppRes,
                                          ec.originalRes, ec.live, ec.env)]
    /\ UNCHANGED <<live, file, resMonitor, isRunning, exited, config, originalRes,
                   currentAppRes, activeApps, pc, runningApps, tried, period,
                   last, hist, edits, dm,
                   configChan, errorChan, events, wpc, shown, wlog, mp, boot>>

SpecEdge == InitEdge /\ [][StopCall]_vars

----------------------------------------------------------------------------
(* The monitor driven by poll ticks and configuration replacements only:    *)
(* monitoring is started and never stopped                                   *)

NextTicks ==
    \/ startMonitoring
    \/ saveSettings
    \/ deleteApplication
    \/ TickSkipped
    \/ TickBegin
    \/ TickSnapshotError
    \/ StartEdge
    \/ StopEdge
    \/ TimerUpdate

SpecTicks == Init /\ [][NextTicks]_vars

----------------------------------------------------------------------------
(* Properties of ChangeResolutionForMonitor, checked under SpecDisplay *)

\* the call of dm got as far as the retry loop
ReachedLoop == dm.called /\ IsModeSupported(dm.resolution, dm.monitorName) /\ dm.drv.stateOk

\* the value the i-th attempt of the call of dm returns
RetOf(i) ==
    DriverRet(RetAt(dm.drv.rets, i), NewMode(dm.before, dm.resolution), dm.monitorName)

AllTransient == \A i \in 1..maxRetries : RetOf(i) \in RetryCodes

\* C6 - retry bound: a call in which every attempt fails with a code the loop
\* retries makes exactly 3 attempts, returns an error and leaves the mode as it
\* was; no call makes a fourth attempt
C6_RetryBound ==
    /\ dm.called => dm.result.attempts <= maxRetries
    /\ ReachedLoop /\ AllTransient =>
          /\ dm.result.attempts = maxRetries
          /\ ~dm.result.ok
          /\ live[dm.monitorName] = dm.before

C6_Witness ==
    /\ ReachedLoop
    /\ \A i \in 1..maxRetries : RetOf(i) = DISP_CHANGE_FAILED
    /\ dm.result.attempts = maxRetries

\* the return values the specification calls terminal and the code has a case for:
\* Unsupported (BADMODE) and RestartRequired (RESTART)
SpecTerminal == {DISP_CHANGE_BADMODE, DISP_CHANGE_RESTART}
\* the return values after which the loop returns an error at once
CodeTerminal == {DISP_CHANGE_BADMODE, DISP_CHANGE_BADFLAGS, DISP_CHANGE_BADPARAM,
                 DISP_CHANGE_BADDUALVIEW}

----------------------------------------------------------------------------
(* Properties of the monitor, checked under Spec *)

\* the display shows the resolution res (a frequency of 0 asks for none)
AtRes(lv, res) ==
    /\ lv.Width = res.Width /\ lv.Height = res.Height
    /\ (res.Frequency = 0 \/ lv.Frequency = res.Frequency)

\* steps, told by what they leave in last
StopStep  == last'.op = "stop"
StartStep == last'.op = "start"
TickOps   == {"tick", "tickSkipped", "snapshotError", "start", "stop", "noStop", "timer"}
\* the step runs the restore-and-clear of stopMonitoring or of shutdown
RestoreStep == resMonitor /\ ((isRunning /\ ~isRunning') \/ (~exited /\ exited'))
\* a SetMode call of the step did not bring the display to the resolution asked for
CallFailed == \E c \in last'.calls : ~c.ok \/ ~AtRes(live'[c.mon], c.res)

\* another rule recorded in activeApps targets the monitor of the stopping rule
SharedBefore ==
    \E q \in (DOMAIN activeApps) \ {last'.proc} : activeApps[q].MonitorName = last'.mon

\* C1 - shared-monitor invariant: while another recorded rule targets the same
\* monitor, a stop edge issues no SetMode, leaves the display and the monitor's
\* ActiveOverrides entry alone and only removes the rule; a revert is attempted
\* only by a stop edge that finds no other recorded rule on the monitor, and
\* such a stop edge does attempt it when the display is not at the restore target
C1_Step ==
    StopStep =>
        /\ SharedBefore =>
              /\ last'.calls = {}
              /\ live' = live
              /\ currentAppRes' = currentAppRes
              /\ activeApps' = Del(activeApps, last'.proc)
        /\ last'.calls /= {} => ~SharedBefore /\ \A c \in last'.calls : c.mon = last'.mon
        /\ LET target == RestoreTarget(activeApps[last'.proc], originalRes)
           IN  ~SharedBefore /\ target /= NilRes /\ last'.ok
                 /\ ~IsResolutionEqual(live[last'.mon], target[1])
               => last'.calls /= {}
C1_SharedMonitor == [][C1_Step]_vars

C1_Witness ==
    /\ last.op = "stop" /\ last.shared
    /\ last.mon \in DOMAIN currentAppRes
    /\ live[last.mon] /= Native
    /\ \E q \in DOMAIN activeApps : activeApps[q].MonitorName = last.mon

NoRevertFailed == \A m \in Monitors : hist.mon[m] /= "failed"

\* C2 as stated - after a shutdown with no rule left recorded and no failed
\* revert, every monitor that was overridden shows its captured original
C2_AsStatedStep ==
    ~exited /\ exited' /\ resMonitor /\ activeApps = EmptyMap /\ NoRevertFailed'
    => /\ currentAppRes' = EmptyMap
       /\ \A m \in DOMAIN originalRes :
             hist'.mon[m] /= "untouched" => live'[m] = originalRes[m]
C2_Step ==
    ~exited /\ exited' /\ resMonitor /\ activeApps = EmptyMap /\ NoRevertFailed'
    => /\ currentAppRes' = EmptyMap
       /\ \A m \in DOMAIN originalRes :
             hist'.mon[m] = "clean" => live'[m] = originalRes[m]
C3_AsStated == hist.same => last.calls = {}

\* C3 - idempotence: a check on the same snapshot and rules as the check before
\* it issues SetMode only for a start edge that failed in the check before
C3_Idempotence ==
    hist.same /\ last.calls /= {} => last.op = "start" /\ last.retry

C3_Witness ==
    /\ hist.same /\ pc = "idle" /\ last.op = "timer"
    /\ activeApps /= EmptyMap
    /\ currentAppRes /= EmptyMap

\* C4 - fail-stuck revert: a stop edge whose revert fails keeps the monitor's
\* ActiveOverrides entry and still removes the rule from ActiveApps; the steps
\* of a check drop an entry only on a stop edge for that monitor after which
\* the display is at the restore target
C4_Step ==
    /\ StopStep /\ last'.calls /= {} /\ CallFailed =>
          /\ currentAppRes' = currentAppRes
          /\ activeApps' = Del(activeApps, last'.proc)
    /\ last'.op \in TickOps =>
          \A m \in (DOMAIN currentAppRes) \ (DOMAIN currentAppRes') :
              /\ StopStep /\ last'.mon = m /\ ~SharedBefore
              /\ LET target == RestoreTarget(activeApps[last'.proc], originalRes)
                 IN  target /= NilRes /\ AtRes(live'[m], target[1])
C4_FailStuck == [][C4_Step]_vars

C4_Witness ==
    /\ last.op = "stop" /\ last.calls /= {} /\ ~last.ok
    /\ last.mon \in DOMAIN currentAppRes
    /\ last.proc \notin DOMAIN activeApps
    /\ live[last.mon] /= Native

\* C5 - failed start is retried: a start edge whose SetMode fails records
\* neither the rule nor an override; the next check that finds the process
\* running under a rule has the start edge pending again
C5_Step ==
    /\ StartStep /\ last'.calls /= {} /\ CallFailed =>
          /\ activeApps' = activeApps
          /\ currentAppRes' = currentAppRes
          /\ last'.proc \in hist'.failed
    /\ last'.op = "tick" =>
          \A p \in hist.failed \cap DOMAIN runningApps' :
              pc' = "starts" /\ p \in PendingStarts(runningApps', activeApps', tried')
    /\ StartStep /\ last'.retry /\ last'.ok /\ last'.calls = {} =>
          IsResolutionEqual(live[last'.mon], runningApps[last'.proc].Resolution)
C5_FailedStartRetried == [][C5_Step]_vars

C5_Witness ==
    /\ last.op = "start" /\ last.retry
    /\ \E c \in last.calls : c.mon = last.mon

\* C8 as stated - the restore calls SetMode for every key of ActiveOverrides
C8_AsStatedStep ==
    RestoreStep =>
        \A m \in DOMAIN currentAppRes : \E c \in last'.calls : c.mon = m
C8_AsStated == [][C8_AsStatedStep]_vars

\* C8 - stopMonitoring and shutdown restore to the captured originals: every
\* overridden monitor that has a captured original gets one SetMode call to
\* that original, whatever the other calls return; no call goes to another
\* resolution; a monitor without a captured original is left as it is
C8_Step ==
    RestoreStep =>
        /\ \A m \in (DOMAIN currentAppRes) \cap (DOMAIN originalRes) :
              \E c \in last'.calls :
                  /\ c.mon = m /\ c.res = originalRes[m]
                  /\ c.ok => live'[m] = originalRes[m]
        /\ \A c \in last'.calls :
              c.mon \in DOMAIN currentAppRes /\ c.res = originalRes[c.mon]
        /\ \A m \in Monitors \ DOMAIN originalRes : live'[m] = live[m]
C8_RestoreAll == [][C8_Step]_vars

C8_Witness ==
    /\ last.op \in {"stopMonitoring", "quit"}
    /\ \E c1, c2 \in last.calls : ~c1.ok /\ c2.ok /\ live[c2.mon] = originalRes[c2.mon]

\* C9 - after stopMonitoring and after shutdown ActiveApps and ActiveOverrides
\* are empty, whatever the restore calls returned and also when an overridden
\* monitor has no captured original
C9_Step == RestoreStep => activeApps' = EmptyMap /\ currentAppRes' = EmptyMap
C9_MapsCleared == [][C9_Step]_vars

C9_Witness ==
    /\ last.op = "stopMonitoring"
    /\ \E c \in last.calls : ~c.ok
    /\ Display2 \notin DOMAIN originalRes /\ live[Display2] /= Native
    /\ activeApps = EmptyMap /\ currentAppRes = EmptyMap

\* C10 - stopMonitoring and quit run only between checks: as stated, the
\* handler's restore-and-clear never takes place while a check is in progress
C10_BetweenTicks == last.op \in {"stopMonitoring", "quit"} => pc = "idle"

\* the handlers that replace the configuration in use
ConfigOps == {"saveSettings", "deleteApplication"}

\* C11 - single writer of the configuration: as stated, no handler replaces
\* g.resMonitor.config while a check is in progress
C11_ConfigStable == last.op \in ConfigOps => pc = "idle"

\* C14 - config-swap non-disruption: a handler that replaces the configuration
\* issues no SetMode call, changes neither ActiveApps nor ActiveOverrides nor
\* the display, and leaves a check in progress where it was; the recorded rules
\* are looked at again only by the edges of a check
C14_Step ==
    last'.op \in ConfigOps =>
        /\ last'.calls = {}
        /\ live' = live
        /\ activeApps' = activeApps
        /\ currentAppRes' = currentAppRes
        /\ pc' = pc /\ runningApps' = runningApps
        /\ resMonitor => config' = file'
C14_ConfigSwap == [][C14_Step]_vars

C14_Witness ==
    /\ last.op = "deleteApplication"
    /\ \E p \in DOMAIN activeApps :
          /\ \A i \in 1..Len(config.Applications) : config.Applications[i].ProcessName /= p
          /\ activeApps[p].MonitorName \in DOMAIN currentAppRes
          /\ live[activeApps[p].MonitorName] /= Native

\* C17 - MonitorOriginalState is never mutated: once the monitor exists no
\* step (check, configuration change, stopMonitoring, a later startMonitoring,
\* shutdown) changes originalRes
C17_Step == resMonitor => originalRes' = originalRes
C17_OriginalsFixed == [][C17_Step]_vars

C17_Witness ==
    /\ last.op = "startMonitoring"
    /\ \E m \in DOMAIN originalRes : live[m] /= originalRes[m]

\* C19 - failure isolation inside one pass: after every start or stop edge,
\* failed or not, the pass goes on to the start edges not yet tried and then to
\* the stop edges that remain; a failed edge does not end the pass
C19_Step ==
    LET ps  == {p \in DOMAIN runningApps : p \notin DOMAIN activeApps' /\ p \notin tried'}
        pst == {p \in DOMAIN activeApps' : p \notin DOMAIN runningApps}
    IN  /\ StartStep =>
              /\ last'.proc \in tried'
              /\ ps /= {} => pc' = "starts"
              /\ ps = {} /\ pst /= {} => pc' = "stops"
        /\ StopStep /\ pst /= {} => pc' = "stops"
C19_FailureIsolated == [][C19_Step]_vars

C19_Witness ==
    /\ last.op = "start" /\ last.ok /\ last.calls /= {}
    /\ \E p \in tried \ {last.proc} : p \notin DOMAIN activeApps /\ p \in hist.failed

\* C20 - a failed process snapshot is a skipped tick: the check issues no
\* SetMode call and leaves ActiveApps, ActiveOverrides and the display as they
\* were; monitoring stays on, the loop goes on to its timer update and back to
\* waiting for the next tick
C20_Step ==
    /\ last'.op = "snapshotError" =>
          /\ last'.calls = {}
          /\ live' = live
          /\ activeApps' = activeApps
          /\ currentAppRes' = currentAppRes
          /\ isRunning' = isRunning /\ ~exited'
          /\ pc' = "timer"
    /\ last'.op = "timer" => pc' = "idle" /\ isRunning' = isRunning
C20_SkippedTick == [][C20_Step]_vars

C20_Witness ==
    /\ last.op = "snapshotError"
    /\ isRunning /\ pc = "timer"
    /\ activeApps /= EmptyMap /\ currentAppRes /= EmptyMap

\* width, height and frequency are the same
SameFields(a, b) ==
    a.Width = b.Width /\ a.Height = b.Height /\ a.Frequency = b.Frequency

\* C23 - start edge at the target: when the monitor's resolution has the width,
\* height and frequency of the rule's target, the start edge makes no SetMode
\* call and leaves the display alone, records the rule in ActiveApps, and sets
\* the monitor's ActiveOverrides entry from MonitorOriginalState only when the
\* monitor has none; an existing entry stays as it is
C23_Step ==
    StartStep /\ last'.ok
      /\ SameFields(live[last'.mon], runningApps[last'.proc].Resolution) =>
        /\ last'.calls = {}
        /\ live' = live
        /\ activeApps' = Put(activeApps, last'.proc, runningApps[last'.proc])
        /\ currentAppRes' =
              IF last'.mon \in DOMAIN currentAppRes
                 \/ last'.mon \notin DOMAIN originalRes
              THEN currentAppRes
              ELSE Put(currentAppRes, last'.mon, originalRes[last'.mon])
C23_StartAtTarget == [][C23_Step]_vars

C23_Witness ==
    /\ last.op = "start" /\ last.ok /\ last.calls = {}
    /\ last.proc \in DOMAIN activeApps
    /\ SameFields(live[last.mon], activeApps[last.proc].Resolution)
    /\ last.mon \in DOMAIN currentAppRes /\ last.mon \in DOMAIN originalRes
    /\ currentAppRes[last.mon] /= originalRes[last.mon]

\* C25 - a failed revert is retried only on a later stop edge: once a revert
\* of a monitor has failed, the steps of the poll loop other than a stop edge
\* on that monitor make no revert call for it (the only call they make for it
\* is a start edge's call for the target of its rule), and a stop edge on that
\* monitor that finds no other recorded rule on it and a display that is not
\* at the restore target calls SetMode for the restore target again
C25_Step ==
    \A m \in Monitors :
        hist.mon[m] = "failed" /\ last'.op \in TickOps =>
            /\ ~(StopStep /\ last'.mon = m) =>
                  \A c \in last'.calls :
                      c.mon = m => /\ StartStep /\ last'.mon = m
                                   /\ c.res = runningApps[last'.proc].Resolution
            /\ StopStep /\ last'.mon = m /\ ~SharedBefore =>
                  LET target == RestoreTarget(activeApps[last'.proc], originalRes)
                  IN  /\ \A c \in last'.calls : c.mon = m /\ c.res = target[1]
                      /\ target /= NilRes /\ last'.calls = {}
                            /\ ~SameFields(live[m], target[1]) => ~last'.ok
C28_StoppedIsQuiet ==
    resMonitor /\ ~isRunning /\ ~exited =>
        /\ last.op \in TickOps => last.op = "tickSkipped"
        /\ activeApps = EmptyMap
        /\ currentAppRes = EmptyMap

----------------------------------------------------------------------------
(* Properties of MonitorProcesses, checked under SpecProc *)

\* C16 - rules sharing a process name: as stated, every rule of the
\* configuration whose process runs is reported by the process check, so that
\* each gets its own start edge
C16_EachRuleReported ==
    mp.called =>
        \A i \in 1..Len(mp.config.Applications) :
            IsProcessRunning(mp.config.Applications[i].ProcessName, mp.processes)
            => \E k \in DOMAIN mp.result : mp.result[k] = mp.config.Applications[i]

----------------------------------------------------------------------------
(* Properties of the bookkeeping, checked under SpecTicks *)

\* C27 - override bookkeeping: after every step of a run made of poll ticks
\* and configuration replacements, each rule recorded in ActiveApps targets a
\* monitor that has an entry in ActiveOverrides; and a step removes a monitor's
\* entry only if it is a stop edge on that monitor after which no recorded rule
\* targets the monitor and the display is at the restore target
C27_Step ==
    /\ \A p \in DOMAIN activeApps' :
          activeApps'[p].MonitorName \in DOMAIN currentAppRes'
    /\ \A m \in (DOMAIN currentAppRes) \ (DOMAIN currentAppRes') :
          /\ StopStep /\ last'.mon = m
          /\ ~\E q \in DOMAIN activeApps' : activeApps'[q].MonitorName = m
          /\ LET target == RestoreTarget(activeApps[last'.proc], originalRes)
             IN  target /= NilRes /\ AtRes(live'[m], target[1])
----------------------------------------------------------------------------
(* The supported-mode check of ChangeResolutionForMonitor, checked under SpecDisplay *)

\* the monitor enumerates a mode of this width and height, and of this
\* frequency unless the frequency asked for is 0
AmongModes(res, mon) ==
    \E mode \in SupportedModes(mon) :
        /\ mode.Width = res.Width /\ mode.Height = res.Height
        /\ (res.Frequency = 0 \/ mode.Frequency = res.Frequency)

\* C30 - SetMode for an unsupported resolution: when the monitor has no mode
\* of the width and height asked for (and of the frequency asked for, unless
\* that is 0), ChangeResolutionForMonitor returns an error without calling the
\* driver, and the display keeps the resolution it had
C30_UnsupportedRejected ==
    dm.called /\ ~AmongModes(dm.resolution, dm.monitorName) =>
        /\ ~dm.result.ok
        /\ dm.result.attempts = 0
        /\ live[dm.monitorName] = dm.before

C30_Witness ==
    /\ dm.called /\ dm.resolution = Tiny75
    /\ dm.drv.stateOk /\ dm.drv.rets[1] = DISP_CHANGE_SUCCESSFUL
    /\ ~dm.result.ok /\ live[dm.monitorName] = dm.before

----------------------------------------------------------------------------
(* Properties of the stop edge, checked under SpecEdge *)

\* C24 - restore target of a stop edge: when the stopping rule is the last
\* recorded one on its monitor, every SetMode call of the stop edge asks for
\* the rule's restore resolution if it has one and for the monitor's captured
\* original otherwise (no call when there is neither); a call is made when
\* the display differs from that target, and when the display already has its
\* width, height and frequency no call is made, the display is left alone and
\* the ActiveOverrides entry is cleared
C24_RestoreTarget ==
    ec.called /\ ~(\E q \in (DOMAIN ec.activeApps) \ {ec.app.ProcessName} :
                     ec.activeApps[q].MonitorName = ec.app.MonitorName) =>
        LET app == ec.app
            mon == app.MonitorName
            explicit == app.RestoreResolution /= NilRes
            hasTarget == explicit \/ mon \in DOMAIN ec.originalRes
            target == IF explicit THEN app.RestoreResolution[1] ELSE ec.originalRes[mon]
        IN  /\ ~hasTarget => ec.result.calls = {}
            /\ hasTarget =>
                  /\ \A c \in ec.result.calls : c.mon = mon /\ c.res = target
                  /\ ec.env.queryOk /\ ~SameFields(ec.live[mon], target) =>
                        ec.result.calls /= {}
                  /\ ec.env.queryOk /\ SameFields(ec.live[mon], target) =>
                        /\ ec.result.calls = {}
                        /\ ec.result.live = ec.live
                        /\ ec.result.currentAppRes = Del(ec.currentAppRes, mon)

C24_Witness ==
    /\ ec.called /\ DOMAIN ec.activeApps = {ec.app.ProcessName}
    /\ ec.app.RestoreResolution /= NilRes
    /\ ec.env.queryOk
    /\ SameFields(ec.live[ec.app.MonitorName], ec.app.RestoreResolution[1])
    /\ ec.app.MonitorName \in DOMAIN ec.currentAppRes
    /\ ec.result.calls = {}
    /\ ec.app.MonitorName \notin DOMAIN ec.result.currentAppRes

\* C26 - equality and support of resolutions: a stop edge that is to restore
\* a rule's restore resolution skips the SetMode call exactly when the display
\* has the width, height and frequency of that resolution, a frequency of 0
\* being a value like any other (so a display at 1280x960@144 is not equal to
\* the target 1280x960@0); the call it makes passes the supported-mode check
\* exactly when the monitor has a mode of that width and height and, unless
\* the frequency asked for is 0, of that frequency
C26_EqualityExact ==
    ec.called /\ DOMAIN ec.activeApps = {ec.app.ProcessName}
      /\ ec.env.queryOk /\ ec.app.RestoreResolution /= NilRes =>
        LET mon == ec.app.MonitorName
            target == ec.app.RestoreResolution[1]
        IN  /\ ec.result.calls = {} <=> SameFields(ec.live[mon], target)
            /\ ec.env.drv = DrvOk =>
                  \A c \in ec.result.calls : c.ok <=> AmongModes(target, mon)

C26_Witness ==
    /\ ec.called /\ DOMAIN ec.activeApps = {ec.app.ProcessName}
    /\ ec.env.queryOk /\ ec.app.RestoreResolution /= NilRes
    /\ LET mon == ec.app.MonitorName
           target == ec.app.RestoreResolution[1]
       IN  /\ target.Frequency = 0
           /\ ec.live[mon].Width = target.Width /\ ec.live[mon].Height = target.Height
           /\ \E c \in ec.result.calls : c.ok

----------------------------------------------------------------------------
(* Properties of the reload path, checked under SpecWatcher *)

\* C12 - reload coalescing: as stated, a configuration waiting in configChan
\* is the one the watcher parsed last
C12_KeepsLatest == configChan /= <<>> => configChan[1] = wlog.parsed

\* C13 - a reload event replaces the active configuration: as stated, once
\* the delivered configuration has been handled it is the one the monitor uses
C13_ReloadReplaces ==
    last.op = "reloadConfig" /\ resMonitor => config = wlog.delivered

\* C15 - a failed reload keeps the last-good configuration: when the load of
\* the changed file fails nothing is put on configChan, the configuration in
\* use and the one shown stay as they were, and the watcher goes on to send the
\* error, which is all that its send adds; a configuration is sent only after
\* a load that succeeded
C15_Step ==
    /\ events' < events /\ LoadFails(file) =>
          /\ configChan' = configChan
          /\ config' = config /\ shown' = shown
          /\ wpc' = "sendError"
    /\ wpc = "sendError" /\ wpc' /= wpc =>
          /\ Len(errorChan') = Len(errorChan) + 1
          /\ configChan' = configChan
          /\ config' = config /\ shown' = shown
    /\ Len(configChan') > Len(configChan) =>
          ~LoadFails(file) /\ configChan' = Append(configChan, LoadConfig(file))
C15_FailedReload == [][C15_Step]_vars

C15_Witness ==
    /\ last.op = "watcherSendError"
    /\ errorChan /= <<>> /\ configChan = <<>>
    /\ resMonitor /\ config = Cfg(<<>>, DefaultPeriod)
    /\ LoadFails(file)

\* C18 - poll interval change: as stated, once a reload that changed the
\* interval has been handled, the timer update that ends a check gives the
\* ticker the new interval
C18_NewPeriod ==
    last.op = "timer" /\ wlog.handled => period = wlog.delivered.PollInterval

----------------------------------------------------------------------------
(* Properties of the startup, checked under SpecStartup *)

\* C21 - first-run bootstrap: as stated, a run that found no configuration
\* file and wrote the default one ends instead of starting the poll goroutine,
\* and it neither starts monitoring nor makes a process check
C21_BootstrapExits ==
    boot.created =>
        /\ boot.phase = "running" => exited
        /\ ~isRunning
        /\ last.op \notin TickOps

\* C22 - poll interval of a loaded configuration: every configuration that
\* LoadConfig returned for a stored document has a poll interval of at least 1;
\* it is 2 when the document has no poll_interval or one that is zero or
\* negative, and the stored value when that is 1 or more
C22_PollAtLeastOne ==
    boot.phase \in {"loaded", "running"} /\ ~boot.created =>
        /\ shown.PollInterval >= 1
        /\ resMonitor => config.PollInterval = shown.PollInterval
        /\ IF "poll_interval" \notin DOMAIN boot.doc THEN shown.PollInterval = 2
           ELSE IF boot.doc.poll_interval <= 0 THEN shown.PollInterval = 2
           ELSE shown.PollInterval = boot.doc.poll_interval

C22_Witness ==
    /\ boot.phase = "running" /\ ~boot.created
    /\ "poll_interval" \in DOMAIN boot.doc
    /\ boot.doc.poll_interval = 0
    /\ resMonitor /\ config.PollInterval = 2

=============================================================================
